---- MODULE Spec2Model ----
(***************************************************************************)
(* AccChecker desktop front end: the Pinia store `checker`                 *)
(* (stores/checker.ts), the Electron main process' IPC handlers, the       *)
(* checker view (form, recent results) and the report view (filters,       *)
(* score colours), as a state machine.                                     *)
(*                                                                         *)
(* JavaScript runs each handler to completion: one action is one           *)
(* synchronous segment (from a call or a resumed await to the next await). *)
(* User-visible strings are written as ASCII tags; the comment next to     *)
(* each tag gives the source text.                                         *)
(***************************************************************************)
EXTENDS Integers, Sequences, FiniteSets, TLC

VARIABLES
    store,      \* the Pinia store's refs (checker.ts 46-59)
    heap,       \* CheckResult objects by identity: heap[id] is object id
    runs,       \* the startCheck calls in progress, one per slot
    timers,     \* pending reset timers set by startCheck's finally block
    ipc,        \* per slot: the 'check-accessibility' invocation in main
    calls,      \* number of startCheck / addResult calls made so far
    exports,    \* the last exportResult call and how it ended
    options,    \* CheckerView's `options` ref: the form's CheckOptions
    route,      \* the router's current location
    report,     \* ReportView's refs and what it last rendered
    backend,    \* what the checking service derived from the last POST
    ladder      \* a score and the colour classes shown for it

vars == <<store, heap, runs, timers, ipc, calls, exports, options, route,
          report, backend, ladder>>

(***************************************************************************)
(* Bounds of the model                                                     *)
(***************************************************************************)
MaxRuns == 2
MaxChecks == 2
MaxHistoryChecks == 12

Null == 0

Min(a, b) == IF a < b THEN a ELSE b

Last(s) == s[Len(s)]

(***************************************************************************)
(* Data model (checker.ts 4-42)                                            *)
(***************************************************************************)
EnableFlags ==
    {"enable_aria_check", "enable_semantic_check", "enable_image_check",
     "enable_media_check", "enable_visual_check"}

OptionFields == EnableFlags \cup {"include_screenshots", "wait_time"}

InitialDefaultOptions ==
    [f \in OptionFields |->
        CASE f = "include_screenshots" -> FALSE
          [] f = "wait_time" -> 5
          [] OTHER -> TRUE]

Severities == {"critical", "high", "medium", "low"}

\* { ...a, ...b }: b's own fields win, a's other fields are kept
Spread(a, b) ==
    [f \in (DOMAIN a) \cup (DOMAIN b) |-> IF f \in DOMAIN b THEN b[f] ELSE a[f]]

(***************************************************************************)
(* The store (checker.ts 44-186)                                           *)
(***************************************************************************)
InitialStore ==
    [isChecking |-> FALSE,
     currentStep |-> "",
     progress |-> 0,
     checkResults |-> <<>>,
     currentResult |-> Null,
     defaultOptions |-> InitialDefaultOptions]

hasResults(s) == Len(s.checkResults) > 0

latestResult(s) == IF Len(s.checkResults) > 0 THEN s.checkResults[1] ELSE Null

\* the simulated progress steps
\* 1 page-loading '페이지 로딩 중...', 2 html-analysis 'HTML 구조 분석 중...',
\* 3 aria 'ARIA 속성 검사 중...', 4 semantic '시멘틱 구조 검사 중...',
\* 5 image '이미지 접근성 검사 중...', 6 wrap-up '결과 정리 중...'
stepsWithoutWrapUp ==
    << [message |-> "page-loading", progress |-> 10],
       [message |-> "html-analysis", progress |-> 20],
       [message |-> "aria", progress |-> 40],
       [message |-> "semantic", progress |-> 60],
       [message |-> "image", progress |-> 80] >>

steps ==
    << [message |-> "page-loading", progress |-> 10],
       [message |-> "html-analysis", progress |-> 20],
       [message |-> "aria", progress |-> 40],
       [message |-> "semantic", progress |-> 60],
       [message |-> "image", progress |-> 80],
       [message |-> "wrap-up", progress |-> 95] >>

\* one pass of the for loop's body before its await
ShowStep(s, i) ==
    [s EXCEPT !.currentStep = steps[i].message, !.progress = steps[i].progress]

\* startCheck from its call to the first await: lines 70-72, then the first
\* loop iteration ('preparing' is '검사 준비 중...')
StartPrefix(s) ==
    ShowStep([s EXCEPT !.isChecking = TRUE,
                       !.progress = 0,
                       !.currentStep = "preparing"], 1)

MergeOptionsDefaultsWin(defaults, opts) == Spread(opts, defaults)

\* line 74
MergeOptions(defaults, opts) == Spread(defaults, opts)

addResultKeepOldest(s, id) ==
    LET unshifted == <<id>> \o s.checkResults
    IN  [s EXCEPT !.checkResults =
            IF Len(unshifted) > 10 THEN SubSeq(unshifted, 2, 11) ELSE unshifted]

addResult(s, id) ==
    LET unshifted == <<id>> \o s.checkResults
    IN  [s EXCEPT !.checkResults =
            IF Len(unshifted) > 10 THEN SubSeq(unshifted, 1, 10) ELSE unshifted]

FinishOkStatesLateProgress(s, id) ==
    LET s1 == addResult(s, id)
        s2 == [s1 EXCEPT !.currentResult = id]
        s3 == [s2 EXCEPT !.progress = 100]
        s4 == [s3 EXCEPT !.currentStep = "done"]
    IN  <<s1, s2, s3, s4>>

\* lines 98-103, statement by statement: the store after each statement
\* ('done' is '검사 완료!')
FinishOkStates(s, id) ==
    LET s1 == [s EXCEPT !.progress = 100]
        s2 == [s1 EXCEPT !.currentStep = "done"]
        s3 == addResult(s2, id)
        s4 == [s3 EXCEPT !.currentResult = id]
    IN  <<s1, s2, s3, s4>>

ResetProgressKeepsOverlay(s) == [s EXCEPT !.currentStep = "", !.progress = 0]

\* the callback of the finally block's setTimeout
ResetProgress(s) ==
    [s EXCEPT !.isChecking = FALSE, !.currentStep = "", !.progress = 0]

clearResults(s) == [s EXCEPT !.checkResults = <<>>, !.currentResult = Null]

updateOptionsReplace(s, opts) == [s EXCEPT !.defaultOptions = opts]

\* lines 139-141
updateOptions(s, opts) ==
    [s EXCEPT !.defaultOptions = Spread(s.defaultOptions, opts)]

\* Array.prototype.find: the first element that matches, in order
RECURSIVE FindByCheckedAt(_, _, _)
FindByCheckedAt(h, ids, at) ==
    IF ids = <<>> THEN Null
    ELSE IF h[Head(ids)].checked_at = at THEN Head(ids)
    ELSE FindByCheckedAt(h, Tail(ids), at)

getResultById(s, h, at) == FindByCheckedAt(h, s.checkResults, at)

(***************************************************************************)
(* Errors.  A JavaScript Error carries a message; a field such as `code`   *)
(* exists only if somebody sets it.  Messages are sequences of parts.      *)
(***************************************************************************)
\* axios rejects a non-2xx response with this message and keeps the
\* response (status and body) in error.response; a request that got no
\* response has no error.response
AxiosError(resp) ==
    IF resp.status = 0
    THEN [message |-> <<"connect ECONNREFUSED 127.0.0.1:8000">>]
    ELSE [message |-> <<"Request failed with status code ", ToString(resp.status)>>,
          response |-> resp]

\* new Error(`접근성 검사 실패: ${error.message}`)  ('check-failed: ')
HandlerError(error) == [message |-> <<"check-failed: ">> \o error.message]

\* what ipcRenderer.invoke rejects with when the handler threw
InvokeRejection(channel, error) ==
    [message |-> <<"Error invoking remote method '", channel, "': Error: ">>
                    \o error.message]

\* what ipcRenderer.invoke rejects with when main has no handler for it
NoHandlerRejection(channel) ==
    [message |-> <<"Error invoking remote method '", channel,
                   "': Error: No handler registered for '", channel, "'">>]

(***************************************************************************)
(* The main process (IPC handlers registered in whenReady)                 *)
(***************************************************************************)
Handlers == {"check-accessibility", "get-app-version"}

\* the body of the POST to http://127.0.0.1:8000/check
PostBody(url, opts) == [url |-> url, options |-> opts]

HandlerOutcomeWholeResponse(resp) ==
    IF resp.status >= 200 /\ resp.status < 300
    THEN [kind |-> "data", data |-> resp]
    ELSE [kind |-> "error", error |-> HandlerError(AxiosError(resp))]

\* the handler once axios.post has settled with resp: return response.data,
\* or throw a new Error built from the axios error's message
HandlerOutcome(resp) ==
    IF resp.status >= 200 /\ resp.status < 300
    THEN [kind |-> "data", data |-> resp.data]
    ELSE [kind |-> "error", error |-> HandlerError(AxiosError(resp))]

(***************************************************************************)
(* The checking service's registry and weights.  Its code is not part of   *)
(* the front end; this follows the design document: one module per         *)
(* category, enabled by the request's flag, weights re-normalised over the *)
(* enabled modules.  Weights are in percent and fractions are exact.       *)
(***************************************************************************)
\* the form's checkboxes
Checkboxes == EnableFlags \cup {"include_screenshots"}

\* the category each enable flag of the form stands for, by its label
CategoryOfFlag ==
    [f \in EnableFlags |->
        CASE f = "enable_aria_check" -> "aria"
          [] f = "enable_semantic_check" -> "semantic"
          [] f = "enable_image_check" -> "image"
          [] f = "enable_media_check" -> "media"
          [] f = "enable_visual_check" -> "visual"]

Categories == {"aria", "semantic", "image", "media", "visual", "keyboard"}

Weights ==
    [c \in Categories |->
        CASE c = "aria" -> 25
          [] c = "semantic" -> 20
          [] c = "image" -> 15
          [] c = "media" -> 15
          [] c = "visual" -> 10
          [] c = "keyboard" -> 15]

RECURSIVE Gcd(_, _)
Gcd(a, b) == IF b = 0 THEN a ELSE Gcd(b, a % b)

\* a fraction in lowest terms
Frac(n, d) == LET g == Gcd(n, d) IN <<n \div g, d \div g>>

FracAdd(x, y) == Frac(x[1] * y[2] + y[1] * x[2], x[2] * y[2])

RECURSIVE SumOver(_, _)
SumOver(f, S) ==
    IF S = {} THEN 0
    ELSE LET c == CHOOSE x \in S : TRUE IN f[c] + SumOver(f, S \ {c})

RECURSIVE FracSumOver(_, _)
FracSumOver(f, S) ==
    IF S = {} THEN <<0, 1>>
    ELSE LET c == CHOOSE x \in S : TRUE IN FracAdd(f[c], FracSumOver(f, S \ {c}))

\* the categories a request enables: those whose flag it carries and sets;
\* a category without a flag in the request follows the service's own
\* configuration
EnabledCategories(opts, keyboard) ==
    {CategoryOfFlag[f] : f \in {g \in EnableFlags \cap DOMAIN opts : opts[g] = TRUE}}
        \cup (IF keyboard THEN {"keyboard"} ELSE {})

NormalizedWeightsOfAll(enabled) ==
    [c \in enabled |-> Frac(Weights[c], SumOver(Weights, Categories))]

\* each enabled category's share of the enabled categories' total weight
NormalizedWeights(enabled) ==
    [c \in enabled |-> Frac(Weights[c], SumOver(Weights, enabled))]

NoRegistry == [posted |-> FALSE, enabled |-> {}, weights |-> <<>>]

(***************************************************************************)
(* startCheck calls in progress                                            *)
(***************************************************************************)
Runs == 1 .. MaxRuns

NoError == [message |-> <<>>]

IdleRun ==
    [pc |-> "idle", step |-> 0, url |-> "", caller |-> "", arg |-> <<>>,
     defaultsAtCall |-> <<>>, checkOptions |-> <<>>,
     outcome |-> "none", ret |-> Null, err |-> NoError, addedAt |-> -1]

NoInvocation ==
    [state |-> "none", url |-> "", options |-> <<>>, posts |-> <<>>,
     response |-> [status |-> -1], reply |-> [kind |-> "none"]]

storeFrame == UNCHANGED <<exports, options, route, report, backend, ladder>>

\* startCheck(url, opts) is called: lines 68-93 up to the first await.  The
\* call is recorded in the first free slot.
StartCheck(r, url, opts, caller, budget) ==
    /\ runs[r].pc = "idle"
    /\ \A q \in Runs : q < r => runs[q].pc # "idle"
    /\ calls < budget
    /\ calls' = calls + 1
    /\ store' = StartPrefix(store)
    /\ runs' = [runs EXCEPT ![r] =
            [IdleRun EXCEPT !.pc = "sleep", !.step = 1, !.url = url,
                            !.caller = caller, !.arg = opts,
                            !.defaultsAtCall = store.defaultOptions,
                            !.checkOptions = MergeOptions(store.defaultOptions, opts)]]
    /\ ipc' = [ipc EXCEPT ![r] = NoInvocation]
    /\ UNCHANGED <<heap, timers, exports, options, route, report, backend, ladder>>

\* a 500 ms timer of the loop fires: the next step is shown, or the loop
\* ends and 'check-accessibility' is invoked (lines 90-96)
StepTimer(r) ==
    /\ runs[r].pc = "sleep"
    /\ IF runs[r].step < Len(steps)
       THEN /\ store' = ShowStep(store, runs[r].step + 1)
            /\ runs' = [runs EXCEPT ![r].step = @ + 1]
            /\ UNCHANGED ipc
       ELSE /\ runs' = [runs EXCEPT ![r].pc = "invoke"]
            /\ ipc' = [ipc EXCEPT ![r] =
                    [NoInvocation EXCEPT !.state = "sent",
                                         !.url = runs[r].url,
                                         !.options = runs[r].checkOptions]]
            /\ UNCHANGED store
    /\ UNCHANGED <<heap, timers, calls>>
    /\ storeFrame

\* main: the 'check-accessibility' handler runs up to `await axios.post`
HandleCheck(r) ==
    /\ ipc[r].state = "sent"
    /\ ipc' = [ipc EXCEPT ![r].state = "posted",
                          ![r].posts = Append(@, PostBody(ipc[r].url, ipc[r].options))]
    /\ UNCHANGED <<store, heap, runs, timers, calls>>
    /\ storeFrame

\* the service takes up a POSTed request: it reads the options and sets up
\* the run's registry
ServiceCheck(r) ==
    /\ ipc[r].state = "posted"
    /\ LET enabled == EnabledCategories(Last(ipc[r].posts).options, backend.keyboard)
       IN  backend' = [backend EXCEPT !.registry[r] =
                        [posted |-> TRUE, enabled |-> enabled,
                         weights |-> NormalizedWeights(enabled)]]
    /\ ipc' = [ipc EXCEPT ![r].state = "served"]
    /\ UNCHANGED <<store, heap, runs, timers, calls, exports>>
    /\ UNCHANGED <<options, route, report, ladder>>

\* main: axios.post settles with resp and the handler returns or throws.
\* A response comes from a service that has taken the request up, and ends
\* the service's run; a request may also fail without any response.
AxiosSettle(r, resp) ==
    /\ \/ ipc[r].state = "served"
       \/ ipc[r].state = "posted" /\ resp.status = 0
    /\ ipc' = [ipc EXCEPT ![r].state = "settled",
                          ![r].response = resp,
                          ![r].reply = HandlerOutcome(resp)]
    /\ backend' = [backend EXCEPT !.registry[r] = NoRegistry]
    /\ UNCHANGED <<store, heap, runs, timers, calls>>
    /\ UNCHANGED <<exports, options, route, report, ladder>>

\* the progress the store showed when id entered the history, in the
\* statement-by-statement run of lines 98-103
ProgressWhenAdded(states, id) ==
    LET at == {i \in 1 .. Len(states) :
                 \E k \in 1 .. Len(states[i].checkResults) :
                     states[i].checkResults[k] = id}
    IN  IF at = {} THEN -1
        ELSE states[CHOOSE i \in at : \A j \in at : i <= j].progress

\* renderer: invoke resolved; lines 96-105, then the finally block
InvokeResolved(r) ==
    /\ runs[r].pc = "invoke"
    /\ ipc[r].state = "settled"
    /\ ipc[r].reply.kind = "data"
    /\ LET id == Len(heap) + 1
           after == FinishOkStates(store, id)
       IN  /\ heap' = Append(heap, ipc[r].reply.data)
           /\ store' = Last(after)
           /\ runs' = [runs EXCEPT ![r].pc = "idle",
                                   ![r].outcome = "returned",
                                   ![r].ret = id,
                                   ![r].addedAt = ProgressWhenAdded(after, id)]
    /\ timers' = timers + 1
    /\ ipc' = [ipc EXCEPT ![r].state = "done"]
    /\ UNCHANGED calls
    /\ storeFrame

InvokeRejectedMarksDone(r) ==
    /\ runs[r].pc = "invoke"
    /\ ipc[r].state = "settled"
    /\ ipc[r].reply.kind = "error"
    /\ store' = [store EXCEPT !.progress = 100, !.currentStep = "done"]
    /\ runs' = [runs EXCEPT ![r].pc = "idle",
                            ![r].outcome = "thrown",
                            ![r].err = InvokeRejection("check-accessibility",
                                                       ipc[r].reply.error)]
    /\ timers' = timers + 1
    /\ ipc' = [ipc EXCEPT ![r].state = "done"]
    /\ UNCHANGED <<heap, calls>>
    /\ storeFrame

\* renderer: invoke rejected; the catch block rethrows, then the finally block
InvokeRejected(r) ==
    /\ runs[r].pc = "invoke"
    /\ ipc[r].state = "settled"
    /\ ipc[r].reply.kind = "error"
    /\ runs' = [runs EXCEPT ![r].pc = "idle",
                            ![r].outcome = "thrown",
                            ![r].err = InvokeRejection("check-accessibility",
                                                       ipc[r].reply.error)]
    /\ timers' = timers + 1
    /\ ipc' = [ipc EXCEPT ![r].state = "done"]
    /\ UNCHANGED <<store, heap, calls>>
    /\ storeFrame

\* a reset timer set by a finally block fires (1000 ms)
ResetTimer ==
    /\ timers > 0
    /\ timers' = timers - 1
    /\ store' = ResetProgress(store)
    /\ UNCHANGED <<heap, runs, ipc, calls>>
    /\ storeFrame

\* the store's public addResult, called with a result object of the caller's
AddResultCall(result, budget) ==
    /\ calls < budget
    /\ calls' = calls + 1
    /\ heap' = Append(heap, result)
    /\ store' = addResult(store, Len(heap) + 1)
    /\ UNCHANGED <<runs, timers, ipc>>
    /\ storeFrame

ClearResults ==
    /\ store' = clearResults(store)
    /\ UNCHANGED <<heap, runs, timers, ipc, calls>>
    /\ storeFrame

UpdateOptions(opts) ==
    /\ store' = updateOptions(store, opts)
    /\ UNCHANGED <<heap, runs, timers, ipc, calls>>
    /\ storeFrame

(***************************************************************************)
(* exportResult (checker.ts 143-164)                                       *)
(***************************************************************************)
ExportFormats == {"json", "html", "pdf"}

\* the switch over format
ExportChannel(format) ==
    CASE format = "json" -> "export-json"
      [] format = "html" -> "export-html"
      [] format = "pdf" -> "export-pdf"

NoExport ==
    [state |-> "none", format |-> "", channel |-> "", result |-> Null,
     err |-> NoError]

\* exportResult(result, format) up to its await
ExportResult(id, format) ==
    /\ exports.state # "pending"
    /\ id \in 1 .. Len(heap)
    /\ exports' = [NoExport EXCEPT !.state = "pending", !.format = format,
                                   !.channel = ExportChannel(format),
                                   !.result = id]
    /\ UNCHANGED <<store, heap, runs, timers, ipc, calls, options, route,
                   report, backend, ladder>>

\* the invoke settles: main runs the channel's handler, or there is none and
\* the promise rejects; the catch block rethrows
ExportSettle ==
    /\ exports.state = "pending"
    /\ exports' =
         IF exports.channel \in Handlers
         THEN [exports EXCEPT !.state = "completed"]
         ELSE [exports EXCEPT !.state = "thrown",
                              !.err = NoHandlerRejection(exports.channel)]
    /\ UNCHANGED <<store, heap, runs, timers, ipc, calls, options, route,
                   report, backend, ladder>>

(***************************************************************************)
(* The checking service behind POST /check, as far as the front end sees   *)
(* it: a 200 with a CheckResult, an error status with {code, message}, or  *)
(* no answer at all.                                                       *)
(***************************************************************************)
MaxStamp == 2

Issue(type, severity) == [type |-> type, severity |-> severity]

SampleIssues == << Issue("aria", "low"), Issue("image", "critical") >>

CheckResultsFor(url) ==
    {[url |-> url, checked_at |-> at, issues |-> SampleIssues] : at \in 1 .. MaxStamp}

\* two of the four codes; navigation_error and internal_error take the same
\* path through the front end
ErrorObjects ==
    {[status |-> 400, data |-> [code |-> "invalid_url", message |-> "URL is not allowed"]],
     [status |-> 504, data |-> [code |-> "render_timeout", message |-> "page did not load in time"]]}

NoResponse == [status |-> 0]

Responses(url) ==
    {[status |-> 200, data |-> res] : res \in CheckResultsFor(url)}
        \cup ErrorObjects \cup {NoResponse}

(***************************************************************************)
(* Specification of the store, the IPC channel and the main process        *)
(***************************************************************************)
Urls == {"https://a.example"}

\* the options arguments callers pass: none, one field, a whole CheckOptions
OptionArgs ==
    { <<>>,
      [f \in {"enable_image_check"} |-> FALSE],
      [InitialDefaultOptions EXCEPT !["wait_time"] = 10] }

InitialRoute == [path |-> "/", id |-> Null]

InitialReport ==
    [selectedSeverity |-> "", selectedCategory |-> "", shown |-> Null,
     filteredIssues |-> <<>>, priorityIssues |-> <<>>]

InitialBackend == [keyboard |-> FALSE, registry |-> [r \in Runs |-> NoRegistry]]

InitialLadder == [score |-> 0, checker |-> "", report |-> "", bar |-> ""]

Init ==
    /\ store = InitialStore
    /\ heap = <<>>
    /\ runs = [r \in Runs |-> IdleRun]
    /\ timers = 0
    /\ ipc = [r \in Runs |-> NoInvocation]
    /\ calls = 0
    /\ exports = NoExport
    /\ options = InitialDefaultOptions
    /\ route = InitialRoute
    /\ report = InitialReport
    /\ backend = InitialBackend
    /\ ladder = InitialLadder

\* the steps of a startCheck call after the call itself, in the renderer, in
\* main and in the service, apart from the service's answer
CheckSteps(r) ==
    \/ StepTimer(r)
    \/ HandleCheck(r)
    \/ ServiceCheck(r)
    \/ InvokeResolved(r)
    \/ InvokeRejected(r)

Next ==
    \/ \E r \in Runs, url \in Urls, o \in OptionArgs :
            StartCheck(r, url, o, "caller", MaxChecks)
    \/ \E r \in Runs : CheckSteps(r)
    \/ \E r \in Runs : \E resp \in Responses(ipc[r].url) : AxiosSettle(r, resp)
    \/ ResetTimer
    \/ ClearResults

Spec == Init /\ [][Next]_vars

(***************************************************************************)
(* Specification of exporting a result                                     *)
(***************************************************************************)
MaxExportChecks == 2

NextExport ==
    \/ \E url \in Urls : StartCheck(1, url, <<>>, "caller", MaxExportChecks)
    \/ CheckSteps(1)
    \/ \E resp \in Responses(ipc[1].url) : AxiosSettle(1, resp)
    \/ ResetTimer
    \/ \E id \in 1 .. Len(heap), format \in ExportFormats : ExportResult(id, format)
    \/ ExportSettle

SpecExport == Init /\ [][NextExport]_vars

(***************************************************************************)
(* Specification of the result history: enough calls to overflow it        *)
(***************************************************************************)
HistoryResult(url) == [url |-> url, checked_at |-> 1, issues |-> SampleIssues]

HistoryResponses(url) == {[status |-> 200, data |-> HistoryResult(url)], NoResponse}

NextHistory ==
    \/ \E url \in Urls : StartCheck(1, url, <<>>, "caller", MaxHistoryChecks)
    \/ CheckSteps(1)
    \/ \E resp \in HistoryResponses(ipc[1].url) : AxiosSettle(1, resp)
    \/ ResetTimer
    \/ \E url \in Urls : AddResultCall(HistoryResult(url), MaxHistoryChecks)
    \/ ClearResults

SpecHistory == Init /\ [][NextHistory]_vars

(***************************************************************************)
(* CheckerView: the form's options and handleSubmit                        *)
(***************************************************************************)
viewFrame == UNCHANGED <<store, heap, runs, timers, ipc, calls, exports>>

\* v-model on a checkbox
ToggleOption(f) ==
    /\ options' = [options EXCEPT ![f] = ~@]
    /\ viewFrame
    /\ UNCHANGED <<route, report, backend, ladder>>

\* handleSubmit up to its await; the submit button is disabled while
\* isChecking
HandleSubmit(r, url, budget) ==
    /\ url # ""
    /\ ~store.isChecking
    /\ StartCheck(r, url, options, "handleSubmit", budget)

\* handleSubmit after its await: to the report, or the alert
HandleSubmitResume(r) ==
    /\ runs[r].caller = "handleSubmit"
    /\ runs[r].pc = "idle"
    /\ runs[r].outcome # "none"
    /\ runs' = [runs EXCEPT ![r].caller = ""]
    /\ route' = IF runs[r].outcome = "returned"
                THEN [path |-> "/report", id |-> Null]
                ELSE route
    /\ UNCHANGED <<store, heap, timers, ipc, calls, exports, options, report,
                   backend, ladder>>

\* the 'view' button of a recent result (the first five are listed)
ViewResult(i) ==
    /\ route.path = "/"
    /\ i \in 1 .. Min(5, Len(store.checkResults))
    /\ store' = [store EXCEPT !.currentResult = store.checkResults[i]]
    /\ route' = [path |-> "/report", id |-> heap[store.checkResults[i]].checked_at]
    /\ UNCHANGED <<heap, runs, timers, ipc, calls, exports, options, report,
                   backend, ladder>>

\* startNewCheck in the report view
StartNewCheck ==
    /\ route.path = "/report"
    /\ route' = [path |-> "/", id |-> Null]
    /\ UNCHANGED <<store, heap, runs, timers, ipc, calls, exports, options,
                   report, backend, ladder>>

(***************************************************************************)
(* Specification of the checker view: the form's checkboxes (the wait-time  *)
(* input keeps its initial value), a submit, the service                   *)
(***************************************************************************)
MaxViewChecks == 1

InitView ==
    /\ store = InitialStore
    /\ heap = <<>>
    /\ runs = [r \in Runs |-> IdleRun]
    /\ timers = 0
    /\ ipc = [r \in Runs |-> NoInvocation]
    /\ calls = 0
    /\ exports = NoExport
    /\ options = InitialDefaultOptions
    /\ route = InitialRoute
    /\ report = InitialReport
    /\ backend \in {[InitialBackend EXCEPT !.keyboard = k] : k \in BOOLEAN}
    /\ ladder = InitialLadder

NextView ==
    \/ \E f \in Checkboxes : ToggleOption(f)
    \/ \E url \in Urls : HandleSubmit(1, url, MaxViewChecks)
    \/ CheckSteps(1)
    \/ \E resp \in HistoryResponses(ipc[1].url) : AxiosSettle(1, resp)
    \/ HandleSubmitResume(1)
    \/ ResetTimer

SpecView == InitView /\ [][NextView]_vars

(***************************************************************************)
(* ReportView: the result shown, its filters, its issue lists              *)
(***************************************************************************)
severityOrder(sev) ==
    CASE sev = "critical" -> 0
      [] sev = "high" -> 1
      [] sev = "medium" -> 2
      [] sev = "low" -> 3

\* Array.prototype.sort with the severity comparator: stable, ascending
RECURSIVE InsertBySeverity(_, _)
InsertBySeverity(x, s) ==
    IF s = <<>> THEN <<x>>
    ELSE IF severityOrder(x.severity) < severityOrder(Head(s).severity)
         THEN <<x>> \o s
         ELSE <<Head(s)>> \o InsertBySeverity(x, Tail(s))

RECURSIVE SortBySeverity(_)
SortBySeverity(s) ==
    IF s = <<>> THEN <<>>
    ELSE LET n == Len(s)
         IN  InsertBySeverity(s[n], SortBySeverity(SubSeq(s, 1, n - 1)))

\* the computed currentResult
ReportCurrentResult ==
    IF route.id # Null
    THEN getResultById(store, heap, route.id)
    ELSE store.currentResult

\* the computed filteredIssues over a result's issues array: the array it
\* returns, and the result's own array afterwards.  Array.prototype.sort
\* sorts the array it is called on; filter makes a new array, so with no
\* filter selected `issues` still is the result's own array.
filteredIssues(issues, severity, category) ==
    LET bySeverity ==
            IF severity # ""
            THEN SelectSeq(issues, LAMBDA i : i.severity = severity)
            ELSE issues
        byCategory ==
            IF category # ""
            THEN SelectSeq(bySeverity, LAMBDA i : i.type = category)
            ELSE bySeverity
        sorted == SortBySeverity(byCategory)
    IN  [value |-> sorted,
         issues |-> IF severity = "" /\ category = "" THEN sorted ELSE issues]

\* the computed priorityIssues: filter and slice both make new arrays
priorityIssues(issues) ==
    LET urgent == SelectSeq(issues, LAMBDA i : i.severity \in {"critical", "high"})
    IN  SubSeq(urgent, 1, Min(5, Len(urgent)))

SeverityChoices == {""} \cup Severities

CategoryChoices == {"", "aria", "semantic", "image", "media", "visual"}

reportFrame ==
    UNCHANGED <<store, runs, timers, ipc, calls, exports, options, route,
                backend, ladder>>

SelectSeverity(sev) ==
    /\ route.path = "/report"
    /\ report' = [report EXCEPT !.selectedSeverity = sev]
    /\ UNCHANGED heap
    /\ reportFrame

SelectCategory(cat) ==
    /\ route.path = "/report"
    /\ report' = [report EXCEPT !.selectedCategory = cat]
    /\ UNCHANGED heap
    /\ reportFrame

\* the report renders: its computed lists are evaluated for the result shown
RenderReport ==
    /\ route.path = "/report"
    /\ ReportCurrentResult # Null
    /\ LET id == ReportCurrentResult
           f == filteredIssues(heap[id].issues, report.selectedSeverity,
                               report.selectedCategory)
       IN  /\ heap' = [heap EXCEPT ![id].issues = f.issues]
           /\ report' = [report EXCEPT !.shown = id,
                                       !.filteredIssues = f.value,
                                       !.priorityIssues = priorityIssues(f.issues)]
    /\ reportFrame

(***************************************************************************)
(* Specification of the report view over results with various issue lists  *)
(***************************************************************************)
MaxReportChecks == 1

MaxIssues == 2

IssueChoices ==
    {Issue("aria", "low"), Issue("aria", "critical"), Issue("image", "high")}

IssueLists ==
    UNION {[1 .. n -> IssueChoices] : n \in 0 .. MaxIssues}

ReportResponses(url) ==
    {[status |-> 200, data |-> [url |-> url, checked_at |-> 1, issues |-> l]] :
        l \in IssueLists} \cup {NoResponse}

NextReport ==
    \/ \E url \in Urls : HandleSubmit(1, url, MaxReportChecks)
    \/ CheckSteps(1)
    \/ \E resp \in ReportResponses(ipc[1].url) : AxiosSettle(1, resp)
    \/ HandleSubmitResume(1)
    \/ ResetTimer
    \/ \E i \in 1 .. 5 : ViewResult(i)
    \/ StartNewCheck
    \/ \E sev \in SeverityChoices : SelectSeverity(sev)
    \/ \E cat \in CategoryChoices : SelectCategory(cat)
    \/ RenderReport

SpecReport == Init /\ [][NextReport]_vars

(***************************************************************************)
(* The score colours of the two views                                      *)
(***************************************************************************)
\* scores carry one decimal: a score is held in tenths of a point
Points(n) == n * 10

\* CheckerView's getScoreColor
CheckerView_getScoreColor(score) ==
    IF score >= Points(90) THEN "text-green-600"
    ELSE IF score >= Points(80) THEN "text-blue-600"
    ELSE IF score >= Points(70) THEN "text-yellow-600"
    ELSE IF score >= Points(60) THEN "text-orange-600"
    ELSE "text-red-600"

\* ReportView's getScoreColor
ReportView_getScoreColor(score) ==
    IF score >= Points(90) THEN "text-green-600"
    ELSE IF score >= Points(80) THEN "text-blue-600"
    ELSE IF score >= Points(70) THEN "text-yellow-600"
    ELSE IF score >= Points(60) THEN "text-orange-600"
    ELSE "text-red-600"

getScoreBarColorStrict(score) ==
    IF score > Points(90) THEN "bg-green-500"
    ELSE IF score >= Points(80) THEN "bg-blue-500"
    ELSE IF score >= Points(70) THEN "bg-yellow-500"
    ELSE IF score >= Points(60) THEN "bg-orange-500"
    ELSE "bg-red-500"

\* ReportView's getScoreBarColor
getScoreBarColor(score) ==
    IF score >= Points(90) THEN "bg-green-500"
    ELSE IF score >= Points(80) THEN "bg-blue-500"
    ELSE IF score >= Points(70) THEN "bg-yellow-500"
    ELSE IF score >= Points(60) THEN "bg-orange-500"
    ELSE "bg-red-500"

\* the design document's grade ladder
Grade(score) ==
    IF score >= Points(90) THEN "A"
    ELSE IF score >= Points(80) THEN "B"
    ELSE IF score >= Points(70) THEN "C"
    ELSE IF score >= Points(60) THEN "D"
    ELSE "F"

MaxScore == 100

Scores == 0 .. Points(MaxScore)

\* a view shows a score: each call site colours it
ShowScore ==
    /\ ladder.checker = ""
    /\ ladder' = [ladder EXCEPT !.checker = CheckerView_getScoreColor(ladder.score),
                                !.report = ReportView_getScoreColor(ladder.score),
                                !.bar = getScoreBarColor(ladder.score)]
    /\ UNCHANGED <<store, heap, runs, timers, ipc, calls, exports, options,
                   route, report, backend>>

InitLadder ==
    /\ store = InitialStore
    /\ heap = <<>>
    /\ runs = [r \in Runs |-> IdleRun]
    /\ timers = 0
    /\ ipc = [r \in Runs |-> NoInvocation]
    /\ calls = 0
    /\ exports = NoExport
    /\ options = InitialDefaultOptions
    /\ route = InitialRoute
    /\ report = InitialReport
    /\ backend = InitialBackend
    /\ ladder \in {[InitialLadder EXCEPT !.score = s] : s \in Scores}

NextLadder == ShowScore

SpecLadder == InitLadder /\ [][NextLadder]_vars

(***************************************************************************)
(* Specification with scheduling: a timer that has been set fires, a       *)
(* handler that has been invoked runs, a request that has been sent        *)
(* settles (with an answer or without one), a settled promise resumes its  *)
(* awaiter: some task that is due is always run eventually.  Calls of      *)
(* startCheck are not forced.                                              *)
(***************************************************************************)
MaxLiveChecks == 2

NextLive ==
    \/ \E r \in Runs, url \in Urls :
            StartCheck(r, url, <<>>, "caller", MaxLiveChecks)
    \/ \E r \in Runs : CheckSteps(r)
    \/ \E r \in Runs : \E resp \in HistoryResponses(ipc[r].url) : AxiosSettle(r, resp)
    \/ ResetTimer

\* the event loop does not stop while a task of a check is due
Scheduled ==
    \/ \E r \in Runs : CheckSteps(r)
    \/ \E r \in Runs : \E resp \in HistoryResponses(ipc[r].url) : AxiosSettle(r, resp)
    \/ ResetTimer

Fairness == WF_vars(Scheduled)

SpecLive == Init /\ [][NextLive]_vars /\ Fairness

(***************************************************************************)
(* Specification of the options: updateOptions before, during and after a  *)
(* check                                                                   *)
(***************************************************************************)
MaxOptionChecks == 1

\* the arguments callers pass to updateOptions: nothing, one field, two
\* fields, a whole CheckOptions
OptionPatches ==
    { <<>>,
      [f \in {"enable_image_check"} |-> FALSE],
      [f \in {"include_screenshots", "wait_time"} |->
          IF f = "wait_time" THEN 10 ELSE TRUE],
      InitialDefaultOptions }

NextOptions ==
    \/ \E p \in OptionPatches : UpdateOptions(p)
    \/ \E url \in Urls, o \in OptionArgs :
            StartCheck(1, url, o, "caller", MaxOptionChecks)
    \/ CheckSteps(1)
    \/ \E resp \in HistoryResponses(ipc[1].url) : AxiosSettle(1, resp)
    \/ ResetTimer

SpecOptions == Init /\ [][NextOptions]_vars

(***************************************************************************)
(* Properties                                                              *)
(***************************************************************************)
Take(s, n) == SubSeq(s, 1, Min(n, Len(s)))

\* C1: the 'check-accessibility' handler issues exactly one POST, whose body
\* is {url, options} with the values the renderer passed; on a 2xx response
\* it hands response.data back unchanged, and startCheck returns an object
\* with that same value.
C1_OnePostAndSameData ==
    \A r \in Runs :
        /\ ipc[r].state \in {"none", "sent"} => ipc[r].posts = <<>>
        /\ ipc[r].state \in {"posted", "served", "settled", "done"} =>
              /\ ipc[r].url = runs[r].url
              /\ ipc[r].options = runs[r].checkOptions
              /\ ipc[r].posts = << [url |-> runs[r].url,
                                    options |-> runs[r].checkOptions] >>
        /\ (ipc[r].state \in {"settled", "done"} /\ ipc[r].response.status = 200) =>
              ipc[r].reply = [kind |-> "data", data |-> ipc[r].response.data]
        /\ runs[r].outcome = "returned" =>
              /\ ipc[r].response.status = 200
              /\ heap[runs[r].ret] = ipc[r].response.data

C1_Witness ==
    \E r \in Runs :
        /\ runs[r].outcome = "returned"
        /\ runs[r].arg # <<>>
        /\ heap[runs[r].ret].checked_at = MaxStamp

\* C2: showing a result in the report view leaves the result's issues list
\* exactly as it was received, whatever filters are selected.
C2_IssuesAsReceived ==
    \A r \in Runs :
        runs[r].outcome = "returned" =>
            heap[runs[r].ret].issues = ipc[r].response.data.issues

PostedOptionsAreTheMerge ==
    \A r \in Runs : \A i \in 1 .. Len(ipc[r].posts) :
        ipc[r].posts[i].options = Spread(runs[r].defaultsAtCall, runs[r].arg)

\* C3: no step of a check (in the renderer, in main or in the service)
\* changes the store's defaultOptions or the caller's options object, and the
\* options POSTed are the spread of the defaultOptions and the options
\* argument of the call.
C3_OptionsOnlyRead ==
    /\ [][(runs' # runs \/ ipc' # ipc \/ backend' # backend) =>
            /\ store'.defaultOptions = store.defaultOptions
            /\ options' = options]_vars
    /\ []PostedOptionsAreTheMerge

C3_Witness ==
    \E r \in Runs :
        /\ runs[r].outcome # "none"
        /\ Len(ipc[r].posts) = 1
        /\ runs[r].arg # runs[r].defaultsAtCall
        /\ options # runs[r].arg

\* C4: when POST /check fails with the service's error object, the error
\* startCheck rethrows carries that object's code and message.
C4_ErrorCarriesCodeAndMessage ==
    \A r \in Runs :
        (runs[r].outcome = "thrown" /\ ipc[r].response.status >= 400) =>
            /\ "code" \in DOMAIN runs[r].err
            /\ runs[r].err.code = ipc[r].response.data.code
            /\ \E i \in 1 .. Len(runs[r].err.message) :
                    runs[r].err.message[i] = ipc[r].response.data.message

\* C5: an export in any of the three formats invokes a channel that main
\* handles and completes without raising.
C5_ExportCompletes ==
    exports.state \in {"completed", "thrown"} =>
        /\ exports.channel = ExportChannel(exports.format)
        /\ exports.channel \in Handlers
        /\ exports.state = "completed"

\* C6: the options sent with a check carry an enable flag for each of the
\* six weighted categories.
C6_FlagForEveryCategory ==
    \A r \in Runs : \A i \in 1 .. Len(ipc[r].posts) :
        \A c \in Categories :
            \E f \in EnableFlags \cap DOMAIN ipc[r].posts[i].options :
                CategoryOfFlag[f] = c

WeightSum(r) ==
    FracSumOver(backend.registry[r].weights, backend.registry[r].enabled)

\* C7 as stated: for every selection of the enable flags, all switched off
\* included, the re-normalised weights of the enabled categories sum to 1.
C7_WeightsAlwaysSumToOne ==
    \A r \in Runs : backend.registry[r].posted => WeightSum(r) = <<1, 1>>

\* C7, amended: whenever at least one category is enabled the re-normalised
\* weights sum to exactly 1; with none enabled there are no weights and
\* their sum is 0.
C7_EnabledWeightsSumToOne ==
    \A r \in Runs :
        backend.registry[r].posted =>
            /\ DOMAIN backend.registry[r].weights = backend.registry[r].enabled
            /\ backend.registry[r].enabled # {} => WeightSum(r) = <<1, 1>>
            /\ backend.registry[r].enabled = {} => WeightSum(r) = <<0, 1>>

C7_Witness ==
    \E r \in Runs :
        /\ backend.registry[r].posted
        /\ backend.registry[r].enabled = {"aria", "image", "visual"}

\* C8: for every score the three colour functions pick the same one of the
\* five bands, and it is the band of the >=90, >=80, >=70, >=60 grade ladder.
BandOfClass(class) ==
    CASE class \in {"text-green-600", "bg-green-500"} -> "A"
      [] class \in {"text-blue-600", "bg-blue-500"} -> "B"
      [] class \in {"text-yellow-600", "bg-yellow-500"} -> "C"
      [] class \in {"text-orange-600", "bg-orange-500"} -> "D"
      [] class \in {"text-red-600", "bg-red-500"} -> "F"

C8_SameLadderEverywhere ==
    ladder.checker # "" =>
        /\ BandOfClass(ladder.checker) = Grade(ladder.score)
        /\ BandOfClass(ladder.report) = Grade(ladder.score)
        /\ BandOfClass(ladder.bar) = Grade(ladder.score)

C8_Witness ==
    /\ ladder.checker # ""
    /\ ladder.score = Points(90)
    /\ ladder.bar = "bg-green-500"

HistoryShape ==
    /\ Len(store.checkResults) <= 10
    /\ \A i \in 1 .. Len(store.checkResults) :
            store.checkResults[i] = Len(heap) - i + 1
    /\ hasResults(store) <=> store.checkResults # <<>>
    /\ latestResult(store) = IF store.checkResults = <<>> THEN Null ELSE Len(heap)

HistoryStep ==
    store'.checkResults # store.checkResults =>
        \/ store'.checkResults = <<>>
        \/ /\ Len(heap') = Len(heap) + 1
           /\ store'.checkResults = Take(<<Len(heap')>> \o store.checkResults, 10)
           /\ latestResult(store') = Len(heap')

\* C9: the history holds at most 10 results, newest first; an added result
\* goes to index 0 in front of the earlier ones in their order, only the
\* oldest are dropped beyond 10; latestResult is the result added last (null
\* on an empty history) and hasResults tells whether the history is
\* non-empty.
C9_BoundedNewestFirst == []HistoryShape /\ [][HistoryStep]_vars

C9_Witness ==
    /\ Len(store.checkResults) = 10
    /\ Len(heap) > 10
    /\ runs[1].outcome = "returned"
    /\ runs[1].ret = Len(heap)

ReturnStep ==
    \A r \in Runs :
        (runs[r].pc = "invoke" /\ runs'[r].pc = "idle"
            /\ ipc[r].reply.kind = "data") =>
            LET id == runs'[r].ret
            IN  /\ runs'[r].outcome = "returned"
                /\ id = Len(heap')
                /\ heap'[id] = ipc[r].reply.data
                /\ store'.checkResults[1] = id
                /\ Take(Tail(store'.checkResults), 9) = Take(store.checkResults, 9)
                /\ store'.currentResult = id
                /\ runs'[r].addedAt = 100
                /\ store'.progress = 100

\* C10: when the backend call succeeds with result r, then on return r is at
\* index 0 of the history, currentResult is r, progress was 100 when r was
\* added, and r is the value returned.
C10_SuccessStoresResult == [][ReturnStep]_vars

C10_Witness ==
    \E r \in Runs :
        /\ runs[r].outcome = "returned"
        /\ store.currentResult = runs[r].ret
        /\ Len(store.checkResults) >= 2
        /\ store.checkResults[1] = runs[r].ret

FailedRunStep ==
    \A r \in Runs :
        ((runs'[r] # runs[r] \/ ipc'[r] # ipc[r])
            /\ runs'[r].outcome # "returned") =>
            /\ store'.checkResults = store.checkResults
            /\ store'.currentResult = store.currentResult
            /\ heap' = heap
            /\ store'.progress = 100 => store' = store

ThrownIsTheRejection ==
    \A r \in Runs :
        /\ (ipc[r].state = "done" /\ ipc[r].reply.kind = "error") =>
              runs[r].outcome = "thrown"
        /\ runs[r].outcome = "thrown" =>
              /\ ipc[r].reply.kind = "error"
              /\ runs[r].err = InvokeRejection("check-accessibility",
                                               ipc[r].reply.error)
              /\ runs[r].ret = Null
              /\ runs[r].addedAt = -1

\* C11: when the backend call fails, startCheck throws the rejection of the
\* invoke to its caller; no step of the failing run (in the renderer, in main
\* or in the service) changes the history or currentResult or creates a
\* result object, and none of them sets progress to 100.
C11_FailureLeavesHistory == []ThrownIsTheRejection /\ [][FailedRunStep]_vars

C11_Witness ==
    \E r \in Runs :
        /\ runs[r].outcome = "thrown"
        /\ ipc[r].response.status = 504
        /\ Len(store.checkResults) = 1
        /\ store.currentResult = store.checkResults[1]

Running(r) == runs[r].pc # "idle"

\* a startCheck call is in progress or a reset timer is pending
Busy == (\E r \in Runs : Running(r)) \/ timers > 0

ProgressIsReset ==
    /\ ~store.isChecking
    /\ store.currentStep = ""
    /\ store.progress = 0

\* C12: from every state in which a startCheck call is in progress or has
\* ended with its reset timer pending, a state follows in which every call
\* has ended, by return or by throw, every reset timer has fired, and
\* isChecking is false, currentStep is empty and progress is 0.
C12_ResetAlwaysFires ==
    Busy ~> (/\ ~Busy
             /\ \A r \in Runs : runs[r].url # "" => runs[r].outcome # "none"
             /\ ProgressIsReset)

C12_Witness ==
    /\ \E r \in Runs : runs[r].outcome = "thrown"
    /\ \E r \in Runs : runs[r].outcome = "returned"
    /\ timers = 0
    /\ ProgressIsReset

\* the values progress takes in a run, in order (lines 71, 78-83, 98)
ProgressValues == <<0, 10, 20, 40, 60, 80, 95, 100>>

ProgressStep ==
    \A r \in Runs :
        (Running(r) /\ \A q \in Runs \ {r} : ~Running(q) /\ ~Running(q)') =>
            /\ store'.progress \in 0 .. 100
            /\ \/ store'.progress = store.progress
               \/ \E i \in 1 .. Len(ProgressValues) - 1 :
                    /\ store.progress = ProgressValues[i]
                    /\ store'.progress = ProgressValues[i + 1]
            /\ (store'.progress = 100 /\ store.progress # 100) =>
                    runs'[r].outcome = "returned"

\* C13: while a startCheck call is in progress and no other call is,
\* progress stays within 0..100 and each step leaves it or moves it to the
\* next of 0, 10, 20, 40, 60, 80, 95, 100, to 100 only on the return of a
\* successful call; the return to 0 comes only after the call has ended.
C13_ProgressNeverDecreasesInRun == [][ProgressStep]_vars

RequestOnlyAfterSteps ==
    \A r \in Runs :
        /\ runs[r].pc = "sleep" =>
              /\ runs[r].step \in 1 .. 6
              /\ ipc[r].state = "none"
              /\ runs[r].outcome = "none"
        /\ (ipc[r].state # "none" \/ runs[r].outcome # "none") => runs[r].step = 6

RequestStep ==
    \A r \in Runs :
        /\ runs'[r].step # runs[r].step =>
              /\ store'.progress = ProgressValues[runs'[r].step + 1]
              /\ ipc'[r].state = "none"
        /\ (ipc[r].state = "none" /\ ipc'[r].state # "none") =>
              /\ ipc'[r].state = "sent"
              /\ runs[r].pc = "sleep"
              /\ runs[r].step = 6
              /\ store' = store

\* C14: a run shows its six progress steps one by one, the sixth with
\* progress 95, while nothing has been sent to main; 'check-accessibility'
\* is invoked only by the step after the sixth, which leaves the store as it
\* is; a run that has a request under way, or has returned or thrown, has
\* shown all six.
C14_RequestAfterAllSteps == []RequestOnlyAfterSteps /\ [][RequestStep]_vars

C14_Witness ==
    \E r \in Runs :
        /\ ipc[r].state = "sent"
        /\ runs[r].step = 6
        /\ store.progress = 95
        /\ store.currentStep = "wrap-up"

\* field by field: p's value where p names the field, else d's
Patched(d, p, f) == IF f \in DOMAIN p THEN p[f] ELSE d[f]

UpdateOptionsLaw ==
    \A p \in OptionPatches :
        LET once == updateOptions(store, p)
        IN  /\ DOMAIN once.defaultOptions = OptionFields
            /\ \A f \in OptionFields :
                    once.defaultOptions[f] = Patched(store.defaultOptions, p, f)
            /\ once.checkResults = store.checkResults
            /\ once.currentResult = store.currentResult
            /\ [once EXCEPT !.defaultOptions = store.defaultOptions] = store
            /\ updateOptions(once, p) = once

SentOptionsFieldwise ==
    \A r \in Runs : \A i \in 1 .. Len(ipc[r].posts) :
        /\ DOMAIN ipc[r].posts[i].options = OptionFields
        /\ \A f \in OptionFields :
                ipc[r].posts[i].options[f] =
                    Patched(runs[r].defaultsAtCall, runs[r].arg, f)

OptionsStep ==
    /\ store'.defaultOptions # store.defaultOptions =>
          /\ \E p \in OptionPatches :
                /\ DOMAIN store'.defaultOptions = OptionFields
                /\ \A f \in OptionFields :
                        store'.defaultOptions[f] = Patched(store.defaultOptions, p, f)
          /\ [store' EXCEPT !.defaultOptions = store.defaultOptions] = store
          /\ heap' = heap
          /\ runs' = runs
    /\ \A r \in Runs :
          (~Running(r) /\ Running(r)') =>
              /\ runs'[r].defaultsAtCall = store.defaultOptions
              /\ \A f \in OptionFields :
                    runs'[r].checkOptions[f] =
                        Patched(store.defaultOptions, runs'[r].arg, f)

\* C15: updateOptions(p) sets the fields p names to p's values and leaves
\* the other fields of defaultOptions, the history and currentResult as they
\* are; applying it a second time changes nothing; and the options a later
\* startCheck(url, o) sends are, field by field, o's value where o names the
\* field and else the value defaultOptions has at the call.
C15_UpdateOptionsMerges ==
    /\ []UpdateOptionsLaw
    /\ []SentOptionsFieldwise
    /\ [][OptionsStep]_vars

C15_Witness ==
    /\ Len(ipc[1].posts) = 1
    /\ runs[1].arg = [f \in {"enable_image_check"} |-> FALSE]
    /\ runs[1].defaultsAtCall =
          [InitialDefaultOptions EXCEPT !["include_screenshots"] = TRUE,
                                        !["wait_time"] = 10]
    /\ ipc[1].posts[1].options["wait_time"] = 10
    /\ ~ipc[1].posts[1].options["enable_image_check"]
    /\ store.defaultOptions = InitialDefaultOptions
    /\ Len(store.checkResults) = 1

\* C16: for every entry of the history, getResultById of the entry's
\* checked_at returns that entry, also after a repeated check that the
\* service answered with the earlier result's checked_at.
C16_EveryResultFoundById ==
    \A i \in 1 .. Len(store.checkResults) :
        getResultById(store, heap, heap[store.checkResults[i]].checked_at)
            = store.checkResults[i]

====
